---- MODULE Spec2Model ----
(***************************************************************************)
(* Model of homework.py: the fitness-tracker formula library (InfoMessage, *)
(* Training, Running, SportsWalking, Swimming), the factory read_package   *)
(* and the driver loop of the __main__ block.                              *)
(*                                                                         *)
(* Numbers.  The program computes with Python ints and floats.  The model  *)
(* computes with exact rationals <<n, d>> (d > 0, lowest terms), every     *)
(* operation written in the order the source writes it.  Rounding error of *)
(* binary floating point, infinities and NaN are outside the model.        *)
(*                                                                         *)
(* Exceptions.  A call's outcome is either Return(v) or Raise(...); the    *)
(* exception is identified by its Python class and by a tag for the        *)
(* message text of the raise statement (the source's texts are Russian;    *)
(* the tags are their English renderings).                                 *)
(***************************************************************************)
EXTENDS Integers, Sequences, FiniteSets, TLC

VARIABLES
    classattr,  \* class attributes (ClassVar) of Training and its subclasses
    rec,        \* caller's records: slot -> Training instance or None
    ret,        \* slot -> the last call made for that slot: [op, out], or NoCall
    first,      \* slot -> (method already called on the record -> its first outcome)
    pkg,        \* slot -> the (workout_type, data) pair handed to read_package
    packages,   \* __main__: the list the loop iterates
    idx,        \* __main__: 1-based position of the loop in packages
    pc,         \* __main__: "idle" | "read" | "main" | "done" | "aborted"
    training,   \* __main__: the name `training` (line 162)
    stdout,     \* __main__: the lines printed so far
    uncaught    \* __main__: the exception that ended the program, or None

vars == <<classattr, pkg, rec, ret, first, packages, idx, pc, training, stdout, uncaught>>

apiVars == <<pkg, rec, ret, first>>
mainVars == <<packages, idx, pc, training, stdout, uncaught>>

\* Python's None, where a record is expected.
None == [cls |-> "NoneType"]
\* No call made yet, where a call is expected.
NoCall == [op |-> "none"]
\* No exception, where an exception is expected.
NoException == [tag |-> "none"]

-----------------------------------------------------------------------------
(* Bounds of the model.                                                    *)

\* Non-negative raw readings range over 0..MaxVal (see DataOfLen).
MaxVal == 2

\* Non-negative raw readings of the two-record caller range over 0..MaxPairVal.
MaxPairVal == 1

\* Longest package list handed to the driver loop.
MaxPackages == 2

-----------------------------------------------------------------------------
(* Exact rational arithmetic standing for Python's float arithmetic.       *)

Abs(n) == IF n < 0 THEN -n ELSE n

RECURSIVE GCD(_, _)
GCD(a, b) == IF b = 0 THEN a ELSE GCD(b, a % b)

\* The rational n/d (d # 0) in lowest terms with a positive denominator.
Rat(n, d) ==
    LET g == GCD(Abs(n), Abs(d))
        s == IF d < 0 THEN -1 ELSE 1
    IN  <<s * (n \div g), s * (d \div g)>>

\* A Python int used as an operand.
Num(k) == <<k, 1>>

IsZero(a) == a[1] = 0

\* a * b (operands are reduced crosswise before multiplying).
Mul(a, b) ==
    LET g1 == GCD(Abs(a[1]), b[2])
        g2 == GCD(Abs(b[1]), a[2])
    IN  Rat((a[1] \div g1) * (b[1] \div g2), (a[2] \div g2) * (b[2] \div g1))

\* a / b for b # 0; the caller raises ZeroDivisionError when b = 0.
Div(a, b) ==
    IF b[1] < 0 THEN Mul(a, <<-b[2], -b[1]>>) ELSE Mul(a, <<b[2], b[1]>>)

\* a + b over the least common denominator.
Add(a, b) ==
    LET g == GCD(a[2], b[2])
    IN  Rat(a[1] * (b[2] \div g) + b[1] * (a[2] \div g), (a[2] \div g) * b[2])

\* a ** 2
Sqr(a) == Mul(a, a)

-----------------------------------------------------------------------------
(* Outcomes of a call.                                                     *)

Return(v) == [tag |-> "return", value |-> v]

\* values: the numbers the message shows; codes: the names it shows.
Raise(exc, text, values, codes) ==
    [tag |-> "raise", exc |-> exc, text |-> text, values |-> values, codes |-> codes]

Returned(o) == o.tag = "return"
Raised(o) == o.tag = "raise"

\* 1 / 0, 1.0 / 0.0: Python raises ZeroDivisionError for ints and floats.
ZeroDivisionError == Raise("ZeroDivisionError", "division by zero", {}, {})

-----------------------------------------------------------------------------
(* Class attributes and dataclass fields.                                  *)

\* The ClassVar bodies of the four classes, as they stand after the
\* class statements have run.
ClassBodies ==
    [Training |->
        [LEN_STEP |-> Rat(65, 100), M_IN_KM |-> Num(1000), MIN_IN_HOUR |-> Num(60)],
     Running |->
        [CALORIES_MEAN_SPEED_MULTIPLIER |-> Num(18), K1 |-> Rat(179, 100)],
     SportsWalking |->
        [K_WALK |-> Rat(35, 1000), K_WALK2 |-> Rat(29, 1000),
         KM_H_M_S |-> Rat(278, 1000), MM_TO_M |-> Num(100)],
     Swimming |->
        [LEN_STEP |-> Rat(138, 100), K_SWM |-> Rat(11, 10), K_SWM2 |-> Num(2)]]

\* self.NAME: the attribute of the instance's class, else of its base Training.
GetAttr(self, name) ==
    IF name \in DOMAIN classattr[self.cls]
    THEN classattr[self.cls][name]
    ELSE classattr["Training"][name]

\* Mutant: the class attribute of Training, whatever the instance's class
\* (Swimming's own LEN_STEP is not seen).
LEN_STEP_Base(self) == classattr["Training"]["LEN_STEP"]

LEN_STEP(self) == GetAttr(self, "LEN_STEP")
M_IN_KM(self) == GetAttr(self, "M_IN_KM")
MIN_IN_HOUR(self) == GetAttr(self, "MIN_IN_HOUR")
CALORIES_MEAN_SPEED_MULTIPLIER(self) == GetAttr(self, "CALORIES_MEAN_SPEED_MULTIPLIER")
K1(self) == GetAttr(self, "K1")
K_WALK(self) == GetAttr(self, "K_WALK")
K_WALK2(self) == GetAttr(self, "K_WALK2")
KM_H_M_S(self) == GetAttr(self, "KM_H_M_S")
MM_TO_M(self) == GetAttr(self, "MM_TO_M")
K_SWM(self) == GetAttr(self, "K_SWM")
K_SWM2(self) == GetAttr(self, "K_SWM2")

\* The dataclass fields in declaration order, base fields first.
TrainingFields == <<"action", "duration", "weight">>

\* Mutant: Swimming declares count_pool before length_pool.
Fields_PoolSwapped(cls) ==
    CASE cls = "Running" -> TrainingFields
      [] cls = "SportsWalking" -> TrainingFields \o <<"height">>
      [] cls = "Swimming" -> TrainingFields \o <<"count_pool", "length_pool">>
      [] OTHER -> TrainingFields

Fields(cls) ==
    CASE cls = "Running" -> TrainingFields
      [] cls = "SportsWalking" -> TrainingFields \o <<"height">>
      [] cls = "Swimming" -> TrainingFields \o <<"length_pool", "count_pool">>
      [] OTHER -> TrainingFields

\* The position of field f in the field sequence fs.
Position(fs, f) == CHOOSE i \in 1..Len(fs) : fs[i] = f

\* cls(*args): the generated __init__ binds the arguments positionally;
\* a wrong number of arguments is a TypeError.
New(cls, args) ==
    LET fs == Fields(cls)
    IN  IF Len(args) # Len(fs)
        THEN Raise("TypeError", "wrong number of positional arguments", {}, {})
        ELSE Return([f \in {"cls"} \cup {fs[i] : i \in 1..Len(fs)} |->
                        IF f = "cls" THEN cls ELSE args[Position(fs, f)]])

-----------------------------------------------------------------------------
(* read_package                                                            *)

\* Mutant: the walking entry is missing from the table.
option_training_NoWalking ==
    [SWM |-> "Swimming", RUN |-> "Running"]

option_training ==
    [SWM |-> "Swimming", RUN |-> "Running", WLK |-> "SportsWalking"]

\* Mutant: [x for x in data if x <= 0]
data_wrong_NonPositive(data) == SelectSeq(data, LAMBDA x : x <= 0)

\* [x for x in data if x < 0]
data_wrong(data) == SelectSeq(data, LAMBDA x : x < 0)

\* {*seq}
SetOf(seq) == {seq[i] : i \in 1..Len(seq)}

read_package(workout_type, data) ==
    IF data_wrong(data) # <<>>
    THEN Raise("ValueError", "only positive values", SetOf(data_wrong(data)), {})
    ELSE IF workout_type \notin DOMAIN option_training
    THEN Raise("ValueError", "we do not train like that", {}, DOMAIN option_training)
    ELSE New(option_training[workout_type], data)

-----------------------------------------------------------------------------
(* Training and its subclasses.                                            *)

\* Training.get_distance (inherited by every subclass)
get_distance(self) ==
    Return(Div(Mul(Num(self.action), LEN_STEP(self)), M_IN_KM(self)))

\* Training.get_mean_speed
Training_get_mean_speed(self) ==
    IF self.duration = 0
    THEN Raise("ValueError", "duration must be greater than zero", {}, {})
    ELSE Return(Div(get_distance(self).value, Num(self.duration)))

\* Mutant: Swimming does not override get_mean_speed.
Swimming_get_mean_speed_Steps(self) == Training_get_mean_speed(self)

\* Swimming.get_mean_speed: count_pool * length_pool / M_IN_KM / duration
Swimming_get_mean_speed(self) ==
    LET lap == Div(Mul(Num(self.count_pool), Num(self.length_pool)), M_IN_KM(self))
    IN  IF self.duration = 0
        THEN ZeroDivisionError
        ELSE Return(Div(lap, Num(self.duration)))

\* self.get_mean_speed(): the method of the instance's class
get_mean_speed(self) ==
    IF self.cls = "Swimming"
    THEN Swimming_get_mean_speed(self)
    ELSE Training_get_mean_speed(self)

\* Training.get_spent_calories
Training_get_spent_calories(self) ==
    Raise("NotImplementedError", "define get_spent_calories in", {}, {self.cls})

\* Mutant: the offset K1 is left out of the running formula.
Running_get_spent_calories_NoOffset(self) ==
    LET speed == get_mean_speed(self)
    IN  IF Raised(speed) THEN speed
        ELSE Return(
            Mul(Mul(Div(Mul(Mul(CALORIES_MEAN_SPEED_MULTIPLIER(self), speed.value),
                            Num(self.weight)),
                        M_IN_KM(self)),
                    Num(self.duration)),
                MIN_IN_HOUR(self)))

\* Running.get_spent_calories
Running_get_spent_calories(self) ==
    LET speed == get_mean_speed(self)
    IN  IF Raised(speed) THEN speed
        ELSE Return(
            Mul(Mul(Div(Mul(Add(Mul(CALORIES_MEAN_SPEED_MULTIPLIER(self), speed.value),
                                K1(self)),
                            Num(self.weight)),
                        M_IN_KM(self)),
                    Num(self.duration)),
                MIN_IN_HOUR(self)))

\* Mutant: a zero height is guarded, the speed term then left out.
SportsWalking_get_spent_calories_Guarded(self) ==
    LET speed == get_mean_speed(self)
        byWeight == Mul(K_WALK(self), Num(self.weight))
        height_m == Div(Num(self.height), MM_TO_M(self))
    IN  IF Raised(speed) THEN speed
        ELSE IF IsZero(height_m)
        THEN Return(Mul(byWeight, Mul(Num(self.duration), MIN_IN_HOUR(self))))
        ELSE Return(
            Mul(Add(byWeight,
                    Mul(Mul(Div(Sqr(Mul(speed.value, KM_H_M_S(self))), height_m),
                            K_WALK2(self)),
                        Num(self.weight))),
                Mul(Num(self.duration), MIN_IN_HOUR(self))))

\* SportsWalking.get_spent_calories
SportsWalking_get_spent_calories(self) ==
    LET speed == get_mean_speed(self)
        byWeight == Mul(K_WALK(self), Num(self.weight))
        height_m == Div(Num(self.height), MM_TO_M(self))
    IN  IF Raised(speed) THEN speed
        ELSE IF IsZero(height_m) THEN ZeroDivisionError
        ELSE Return(
            Mul(Add(byWeight,
                    Mul(Mul(Div(Sqr(Mul(speed.value, KM_H_M_S(self))), height_m),
                            K_WALK2(self)),
                        Num(self.weight))),
                Mul(Num(self.duration), MIN_IN_HOUR(self))))

\* Swimming.get_spent_calories
Swimming_get_spent_calories(self) ==
    LET speed == get_mean_speed(self)
    IN  IF Raised(speed) THEN speed
        ELSE Return(
            Mul(Mul(Mul(Add(speed.value, K_SWM(self)), K_SWM2(self)),
                    Num(self.weight)),
                Num(self.duration)))

\* self.get_spent_calories(): the method of the instance's class
get_spent_calories(self) ==
    CASE self.cls = "Running" -> Running_get_spent_calories(self)
      [] self.cls = "SportsWalking" -> SportsWalking_get_spent_calories(self)
      [] self.cls = "Swimming" -> Swimming_get_spent_calories(self)
      [] OTHER -> Training_get_spent_calories(self)

\* InfoMessage(training_type, duration, distance, speed, calories)
InfoMessage(training_type, duration, distance, speed, calories) ==
    [training_type |-> training_type, duration |-> duration,
     distance |-> distance, speed |-> speed, calories |-> calories]

\* Training.show_training_info: the arguments are evaluated left to right
\* and the first exception propagates.
show_training_info(self) ==
    LET distance == get_distance(self)
        speed == get_mean_speed(self)
        calories == get_spent_calories(self)
    IN  IF Raised(distance) THEN distance
        ELSE IF Raised(speed) THEN speed
        ELSE IF Raised(calories) THEN calories
        ELSE Return(InfoMessage(self.cls, Num(self.duration), distance.value,
                                speed.value, calories.value))

\* format(x, ".3f"): the number of thousandths nearest to x (a tie goes to
\* the even neighbour), standing for the text with three decimals.
Fixed3(a) ==
    LET t == Mul(a, Num(1000))
        q == t[1] \div t[2]
        r == t[1] % t[2]
    IN  IF 2 * r > t[2] THEN q + 1
        ELSE IF 2 * r < t[2] THEN q
        ELSE IF q % 2 = 0 THEN q ELSE q + 1

\* InfoMessage.get_message: the template's five placeholders, filled.
get_message(info) ==
    Return([training_type |-> info.training_type,
            duration |-> Fixed3(info.duration),
            distance |-> Fixed3(info.distance),
            speed |-> Fixed3(info.speed),
            calories |-> Fixed3(info.calories)])

-----------------------------------------------------------------------------
(* Inputs.                                                                 *)

Slots == {1, 2}

Methods == {"get_distance", "get_mean_speed", "get_spent_calories", "show_training_info"}

\* The packages of the __main__ block.
SamplePackages ==
    <<  <<"SWM", <<720, 1, 80, 25, 40>> >>,
        <<"RUN", <<15000, 1, 75>> >>,
        <<"WLK", <<9000, 1, 75, 180>> >>  >>

NegativeVals == {-5, -1}

Readings == NegativeVals \cup (0..MaxVal)

\* Sequences of n readings.  A positive action count is in units of 20000
\* steps, and a single unit in walking-shaped data (n = 4): the exact value
\* of the walking formula then stays within TLC's 32-bit integers.
DataOver(n, readings) ==
    {[i \in 1..n |->
        IF i = 1 /\ d[i] > 0 THEN 20000 * (IF n = 4 THEN 1 ELSE d[i]) ELSE d[i]] :
        d \in [1..n -> readings]}

DataOfLen(n) == DataOver(n, Readings)

WorkoutCodes == {"SWM", "RUN", "WLK", "XYZ"}

\* What a caller may hand to read_package.
Packages ==
    (WorkoutCodes \X (DataOfLen(3) \cup DataOfLen(4) \cup DataOfLen(5)))
    \cup {SamplePackages[i] : i \in 1..2}

\* No package read yet.
NoPackage == <<>>

\* What the two-record caller hands to read_package: swimming data without
\* negative values.
SwimPackages == {"SWM"} \X DataOver(5, 0..MaxPairVal)

\* The packages the driver's list is drawn from: the swimming and running
\* packages of the __main__ block, a walking package like its third (with
\* 10000 steps: the exact value for 9000 steps exceeds TLC's integers), and
\* packages that fail: an unknown code, a negative value, a zero duration,
\* a zero height, a value too few.
DriverPackages ==
    {SamplePackages[1],
     SamplePackages[2],
     <<"WLK", <<10000, 1, 75, 180>> >>,
     <<"XYZ", <<1, 1, 1>> >>,
     <<"RUN", <<-5, 1, 75>> >>,
     <<"SWM", <<720, 0, 80, 25, 40>> >>,
     <<"WLK", <<10000, 1, 75, 0>> >>,
     <<"RUN", <<15000, 1>> >>}

\* The lists of at most MaxPackages packages.
PackageLists ==
    UNION {[1..n -> DriverPackages] : n \in 0..MaxPackages}

-----------------------------------------------------------------------------
(* A caller of the library: it builds a record with read_package and calls *)
(* the record's methods in any order, any number of times.                 *)

ApiInit ==
    /\ classattr = ClassBodies
    /\ pkg = [s \in Slots |-> NoPackage]
    /\ rec = [s \in Slots |-> None]
    /\ ret = [s \in Slots |-> NoCall]
    /\ first = [s \in Slots |-> <<>>]
    /\ packages = <<>>
    /\ idx = 1
    /\ pc = "idle"
    /\ training = None
    /\ stdout = <<>>
    /\ uncaught = NoException

\* training = read_package(workout_type, data), a raised exception caught.
ReadPackage(s, inputs) ==
    /\ pkg[s] = NoPackage
    /\ \E p \in inputs :
        LET out == read_package(p[1], p[2])
        IN  /\ pkg' = [pkg EXCEPT ![s] = p]
            /\ rec' = [rec EXCEPT ![s] = IF Returned(out) THEN out.value ELSE None]
            /\ ret' = [ret EXCEPT ![s] = [op |-> "read_package", out |-> out]]
    /\ UNCHANGED <<classattr, first>>
    /\ UNCHANGED mainVars

\* The caller records the outcome of method op on the record of slot s.
Called(s, op, out) ==
    /\ ret' = [ret EXCEPT ![s] = [op |-> op, out |-> out]]
    /\ first' = [first EXCEPT ![s] = IF op \in DOMAIN @ THEN @ ELSE (op :> out) @@ @]

GetDistance(s) ==
    /\ rec[s] # None
    /\ Called(s, "get_distance", get_distance(rec[s]))
    /\ UNCHANGED <<classattr, pkg, rec>>
    /\ UNCHANGED mainVars

GetMeanSpeed(s) ==
    /\ rec[s] # None
    /\ Called(s, "get_mean_speed", get_mean_speed(rec[s]))
    /\ UNCHANGED <<classattr, pkg, rec>>
    /\ UNCHANGED mainVars

\* Mutant: the method converts the duration to minutes in place
\* (self.duration *= self.MIN_IN_HOUR) before it computes.
GetSpentCalories_InPlace(s) ==
    /\ rec[s] # None
    /\ Called(s, "get_spent_calories", get_spent_calories(rec[s]))
    /\ rec' = [rec EXCEPT ![s] =
                [f \in DOMAIN @ |-> IF f = "duration" THEN 60 * @[f] ELSE @[f]]]
    /\ UNCHANGED <<classattr, pkg>>
    /\ UNCHANGED mainVars

GetSpentCalories(s) ==
    /\ rec[s] # None
    /\ Called(s, "get_spent_calories", get_spent_calories(rec[s]))
    /\ UNCHANGED <<classattr, pkg, rec>>
    /\ UNCHANGED mainVars

ShowTrainingInfo(s) ==
    /\ rec[s] # None
    /\ Called(s, "show_training_info", show_training_info(rec[s]))
    /\ UNCHANGED <<classattr, pkg, rec>>
    /\ UNCHANGED mainVars

\* info.get_message() on the InfoMessage the last call returned.
GetMessage(s) ==
    /\ ret[s].op = "show_training_info"
    /\ Returned(ret[s].out)
    /\ ret' = [ret EXCEPT ![s] = [op |-> "get_message", out |-> get_message(ret[s].out.value)]]
    /\ UNCHANGED <<classattr, pkg, rec, first>>
    /\ UNCHANGED mainVars

ApiNext ==
    \/ ReadPackage(1, Packages)
    \/ GetDistance(1)
    \/ GetMeanSpeed(1)
    \/ GetSpentCalories(1)
    \/ ShowTrainingInfo(1)
    \/ GetMessage(1)

Spec == ApiInit /\ [][ApiNext]_vars

-----------------------------------------------------------------------------
(* A caller that builds two records and asks each for its mean speed.      *)

PairNext ==
    \E s \in Slots :
        \/ ReadPackage(s, SwimPackages)
        \/ GetMeanSpeed(s)

PairSpec == ApiInit /\ [][PairNext]_vars

-----------------------------------------------------------------------------
(* The __main__ block: for workout_type, data in packages: ...             *)

MainInit ==
    /\ classattr = ClassBodies
    /\ pkg = [s \in Slots |-> NoPackage]
    /\ rec = [s \in Slots |-> None]
    /\ ret = [s \in Slots |-> NoCall]
    /\ first = [s \in Slots |-> <<>>]
    /\ packages \in PackageLists
    /\ idx = 1
    /\ pc = "read"
    /\ training = None
    /\ stdout = <<>>
    /\ uncaught = NoException

\* training = read_package(workout_type, data); an exception is not caught.
LoopReadPackage ==
    /\ pc = "read"
    /\ idx <= Len(packages)
    /\ LET out == read_package(packages[idx][1], packages[idx][2])
       IN  IF Raised(out)
           THEN /\ pc' = "aborted"
                /\ uncaught' = out
                /\ UNCHANGED training
           ELSE /\ pc' = "main"
                /\ training' = out.value
                /\ UNCHANGED uncaught
    /\ UNCHANGED <<classattr, packages, idx, stdout>>
    /\ UNCHANGED apiVars

\* Mutant: the exception of one package is caught and the loop goes on.
Main_Isolating ==
    /\ pc = "main"
    /\ LET info == show_training_info(training)
       IN  IF Raised(info)
           THEN /\ idx' = idx + 1
                /\ pc' = "read"
                /\ UNCHANGED <<stdout, uncaught>>
           ELSE /\ stdout' = Append(stdout, get_message(info.value).value)
                /\ idx' = idx + 1
                /\ pc' = "read"
                /\ UNCHANGED uncaught
    /\ UNCHANGED <<classattr, packages, training>>
    /\ UNCHANGED apiVars

\* main(training): info = training.show_training_info();
\* print(info.get_message()); an exception is not caught.
Main ==
    /\ pc = "main"
    /\ LET info == show_training_info(training)
       IN  IF Raised(info)
           THEN /\ pc' = "aborted"
                /\ uncaught' = info
                /\ UNCHANGED <<stdout, idx>>
           ELSE /\ stdout' = Append(stdout, get_message(info.value).value)
                /\ idx' = idx + 1
                /\ pc' = "read"
                /\ UNCHANGED uncaught
    /\ UNCHANGED <<classattr, packages, training>>
    /\ UNCHANGED apiVars

\* The list is exhausted: the program ends.
LoopEnd ==
    /\ pc = "read"
    /\ idx > Len(packages)
    /\ pc' = "done"
    /\ UNCHANGED <<classattr, packages, idx, training, stdout, uncaught>>
    /\ UNCHANGED apiVars

MainNext ==
    \/ LoopReadPackage
    \/ Main
    \/ LoopEnd

MainSpec == MainInit /\ [][MainNext]_vars

-----------------------------------------------------------------------------
(* Properties.                                                             *)

\* The negative values of a data sequence, as a set.
Negatives(data) == {data[i] : i \in {j \in 1..Len(data) : data[j] < 0}}

\* The rational a is >= 0.
NonNeg(a) == a[1] >= 0

ValidCodes == {"SWM", "RUN", "WLK"}

\* The error read_package raises for negative values.
NegativeValueError(values) == Raise("ValueError", "only positive values", values, {})

\* The error Training.get_mean_speed raises for a zero duration.
InvalidDurationError == Raise("ValueError", "duration must be greater than zero", {}, {})

\* C1: read_package, given data with at least one negative value, raises the
\* negative-value error whatever the workout code is; the error carries
\* exactly the set of the negative values, and no record is constructed.
C1_NegativeValuesRejected ==
    \A s \in Slots :
        (ret[s].op = "read_package" /\ Negatives(pkg[s][2]) # {}) =>
            /\ ret[s].out = NegativeValueError(Negatives(pkg[s][2]))
            /\ rec[s] = None

\* C1 witness: an unknown code with the negatives -5, -1, -5 was rejected
\* with the set {-5, -1}.
C1_Witness ==
    /\ ret[1].op = "read_package"
    /\ pkg[1] = <<"XYZ", <<-5, -1, -5, 0>> >>
    /\ ret[1].out.values = {-5, -1}

C3_InvalidDurationIffZero ==
    \A s \in Slots :
        ret[s].op = "get_mean_speed" =>
            /\ Raised(ret[s].out) <=> rec[s].duration = 0
            /\ rec[s].duration = 0 => ret[s].out = InvalidDurationError

\* The record read_package is to build from a package.
ExpectedRecord(p) ==
    CASE p[1] = "RUN" ->
            [cls |-> "Running", action |-> p[2][1], duration |-> p[2][2],
             weight |-> p[2][3]]
      [] p[1] = "WLK" ->
            [cls |-> "SportsWalking", action |-> p[2][1], duration |-> p[2][2],
             weight |-> p[2][3], height |-> p[2][4]]
      [] p[1] = "SWM" ->
            [cls |-> "Swimming", action |-> p[2][1], duration |-> p[2][2],
             weight |-> p[2][3], length_pool |-> p[2][4], count_pool |-> p[2][5]]

\* C4: when read_package succeeds, the record is of the class mapped to the
\* code and its fields are the raw values in declaration order: action,
\* duration, weight, then height (SportsWalking) or length_pool, count_pool
\* (Swimming).
C4_PositionalFields ==
    \A s \in Slots :
        /\ (ret[s].op = "read_package" /\ Returned(ret[s].out)) =>
                rec[s] = ret[s].out.value
        /\ rec[s] # None =>
                /\ pkg[s][1] \in ValidCodes
                /\ rec[s] = ExpectedRecord(pkg[s])

\* C4 witness: a swimming record built from five different values.
C4_Witness ==
    /\ ret[1].op = "read_package"
    /\ pkg[1] = SamplePackages[1]
    /\ rec[1].cls = "Swimming"
    /\ rec[1].length_pool = 25
    /\ rec[1].count_pool = 40

\* C5 (as stated): the summary of ("RUN", [15000, 1, 75]) has distance 9.750,
\* mean speed 9.750 and calories of about 792.00.
C5_Original ==
    (pkg[1] = SamplePackages[2] /\ ret[1].op = "show_training_info") =>
        /\ Returned(ret[1].out)
        /\ ret[1].out.value.distance = Rat(9750, 1000)
        /\ ret[1].out.value.speed = Rat(9750, 1000)
        /\ Fixed3(ret[1].out.value.calories) \in 791995..792005

\* C5 (amended): the summary of ("RUN", [15000, 1, 75]) has distance 9.750,
\* mean speed 9.750 and calories 797.805, the value of
\* (18*9.75+1.79)*75/1000*1*60; the message shows 9.750, 9.750 and 797.805.
C5_RunningSample ==
    /\ (pkg[1] = SamplePackages[2] /\ ret[1].op = "show_training_info") =>
            /\ Returned(ret[1].out)
            /\ ret[1].out.value.distance = Rat(9750, 1000)
            /\ ret[1].out.value.speed = Rat(9750, 1000)
            /\ ret[1].out.value.calories = Rat(797805, 1000)
    /\ (pkg[1] = SamplePackages[2] /\ ret[1].op = "get_message") =>
            ret[1].out = Return([training_type |-> "Running", duration |-> 1000,
                                 distance |-> 9750, speed |-> 9750,
                                 calories |-> 797805])

\* C5 witness: the message of the running sample was built.
C5_Witness ==
    /\ pkg[1] = SamplePackages[2]
    /\ ret[1].op = "get_message"

\* C6: the summary of ("SWM", [720, 1, 80, 25, 40]) has mean speed
\* 40*25/1000/1 = 1.000, distance 720*1.38/1000 shown as 0.994, and
\* calories (1.0+1.1)*2*80*1 = 336.00.
C6_SwimmingSample ==
    /\ (pkg[1] = SamplePackages[1] /\ ret[1].op = "show_training_info") =>
            /\ Returned(ret[1].out)
            /\ ret[1].out.value.speed = Num(1)
            /\ ret[1].out.value.distance = Rat(720 * 138, 100 * 1000)
            /\ ret[1].out.value.calories = Num(336)
    /\ (pkg[1] = SamplePackages[1] /\ ret[1].op = "get_message") =>
            ret[1].out = Return([training_type |-> "Swimming", duration |-> 1000,
                                 distance |-> 994, speed |-> 1000,
                                 calories |-> 336000])

\* C6 witness: the message of the swimming sample was built.
C6_Witness ==
    /\ pkg[1] = SamplePackages[1]
    /\ ret[1].op = "get_message"

\* Two Swimming records with the same count_pool, length_pool and duration.
SamePool(a, b) ==
    /\ a.cls = "Swimming"
    /\ b.cls = "Swimming"
    /\ a.count_pool = b.count_pool
    /\ a.length_pool = b.length_pool
    /\ a.duration = b.duration

\* C7: two Swimming records that agree on count_pool, length_pool and
\* duration give the same outcome of get_mean_speed (the same value, or
\* both fail), whatever their action and weight are.
C7_SwimmingSpeedIndependentOfAction ==
    \A s, t \in Slots :
        (/\ ret[s].op = "get_mean_speed"
         /\ ret[t].op = "get_mean_speed"
         /\ SamePool(rec[s], rec[t])) =>
            ret[s].out = ret[t].out

\* C7 witness: two records with the same pool data, different action and
\* weight, and a mean speed above zero returned for both.
C7_Witness ==
    /\ ret[1].op = "get_mean_speed"
    /\ ret[2].op = "get_mean_speed"
    /\ SamePool(rec[1], rec[2])
    /\ rec[1].action # rec[2].action
    /\ rec[1].weight # rec[2].weight
    /\ Returned(ret[1].out)
    /\ ret[1].out.value[1] > 0

\* read_package or the summary computation fails for package p.
PackageFails(p) ==
    LET out == read_package(p[1], p[2])
    IN  Raised(out) \/ Raised(show_training_info(out.value))

\* The line printed for a package that does not fail.
Summary(p) ==
    get_message(show_training_info(read_package(p[1], p[2]).value).value).value

\* C8: the driver takes the packages in list order and stops at the first
\* failure: the summaries of the packages before the current position have
\* been printed, in order, and nothing else; when the program is aborted
\* the package at the current position is one that fails (and neither it
\* nor a later one is printed); when it is done, one summary per package
\* has been printed.
C8_FailFastInOrder ==
    /\ idx \in 1..(Len(packages) + 1)
    /\ Len(stdout) = idx - 1
    /\ \A k \in 1..(idx - 1) :
            /\ ~PackageFails(packages[k])
            /\ stdout[k] = Summary(packages[k])
    /\ pc = "aborted" =>
            /\ idx <= Len(packages)
            /\ PackageFails(packages[idx])
            /\ uncaught # NoException
    /\ pc = "done" =>
            /\ Len(stdout) = Len(packages)
            /\ uncaught = NoException

\* C8 witness: the summary computation failed for the second of two
\* packages, after the summary of the first was printed.
C8_Witness ==
    /\ pc = "aborted"
    /\ Len(packages) = 2
    /\ idx = 2
    /\ Len(stdout) = 1
    /\ uncaught.exc = "ZeroDivisionError"

\* C9: once a record is constructed, every call (get_distance,
\* get_mean_speed, get_spent_calories, show_training_info; returning or
\* failing) leaves the record's fields and the class attributes unchanged,
\* and a method called again gives the outcome of its first call.
C9_ReadOnlyAfterConstruction ==
    [][\A s \in Slots :
            rec[s] # None =>
                /\ rec'[s] = rec[s]
                /\ classattr' = classattr
                /\ \A m \in DOMAIN first[s] : first'[s][m] = first[s][m]
                /\ ret'[s].op \in Methods => ret'[s].out = first'[s][ret'[s].op]
      ]_vars

\* C9 witness: get_spent_calories was called after all four methods had
\* been called on a walking record for which it fails.
C9_Witness ==
    /\ rec[1] # None
    /\ rec[1].cls = "SportsWalking"
    /\ DOMAIN first[1] = Methods
    /\ ret[1].op = "get_spent_calories"
    /\ Raised(ret[1].out)

\* C10: for a record returned by read_package, show_training_info fails if
\* and only if duration = 0, or the record is a SportsWalking with
\* height = 0; otherwise it returns an InfoMessage whose training_type is
\* the name of the record's class and whose distance, speed and calories
\* are >= 0.
C10_SummaryFailsIffZeroDurationOrHeight ==
    \A s \in Slots :
        ret[s].op = "show_training_info" =>
            /\ Raised(ret[s].out) <=>
                    \/ rec[s].duration = 0
                    \/ (rec[s].cls = "SportsWalking" /\ rec[s].height = 0)
            /\ Returned(ret[s].out) =>
                    /\ ret[s].out.value.training_type = rec[s].cls
                    /\ rec[s].cls \in {"Running", "SportsWalking", "Swimming"}
                    /\ NonNeg(ret[s].out.value.distance)
                    /\ NonNeg(ret[s].out.value.speed)
                    /\ NonNeg(ret[s].out.value.calories)

\* C10 witness: a walking record with duration # 0 and height = 0, built
\* from accepted zero values, for which show_training_info failed.
C10_Witness ==
    /\ ret[1].op = "show_training_info"
    /\ rec[1].cls = "SportsWalking"
    /\ rec[1].duration # 0
    /\ rec[1].height = 0
    /\ Raised(ret[1].out)

====
